---- MODULE Spec2Model ----
\* Model of the /swap request pipeline of src/main.py: upload validation,
\* normalisation, fingerprinting, the TTL result cache, the remote invoker
\* face_swap with its retry wrapper, output finalisation and the mapping of
\* outcomes to HTTP responses.
\*
\* Strings are sequences of tokens (single characters where the code looks
\* inside the string, longer tokens elsewhere), so that rsplit, lower,
\* startswith, endswith and basename are computed, not assumed.
EXTENDS Integers, Sequences, FiniteSets, TLC

\* ---------------------------------------------------------------- bounds
\* Request slots that can be in flight at the same time.
MaxInFlight == 2
\* Requests accepted in one behaviour (each gets a fresh uuid).
MaxRequests == 2
\* The clock advances in steps of TickStep seconds up to MaxTime.
TickStep == 1800
MaxTime == 3600
\* Capacity of the result cache. The program uses 100 (src/main.py:39); the
\* model uses a small capacity so that eviction at capacity is reachable.
maxsize == 2
\* Files left behind in /tmp are counted up to MaxOrphans.
MaxOrphans == 1

\* ------------------------------------------------------ program constants
ttl == 3600
Tries == 3

Reqs == 1..MaxInFlight

Min(a, b) == IF a < b THEN a ELSE b

\* ------------------------------------------------------- string helpers
Lower(t) ==
  CASE t = "P" -> "p" [] t = "N" -> "n" [] t = "G" -> "g"
    [] t = "J" -> "j" [] t = "E" -> "e" [] t = "T" -> "t" [] t = "X" -> "x"
    [] OTHER -> t

LowerStr(s) == [i \in 1..Len(s) |-> Lower(s[i])]

Contains(s, t) == \E i \in 1..Len(s) : s[i] = t

LastIndexOf(s, t) ==
  IF Contains(s, t) THEN CHOOSE i \in 1..Len(s) :
                           s[i] = t /\ \A j \in (i+1)..Len(s) : s[j] # t
  ELSE 0

\* s.rsplit(t, 1)[1] for a string that contains t
RSplitLast(s, t) == SubSeq(s, LastIndexOf(s, t) + 1, Len(s))

StartsWith(s, p) == Len(s) >= Len(p) /\ SubSeq(s, 1, Len(p)) = p

EndsWith(s, p) ==
  Len(s) >= Len(p) /\ SubSeq(s, Len(s) - Len(p) + 1, Len(s)) = p

\* os.path.basename
Basename(s) == IF Contains(s, "/") THEN RSplitLast(s, "/") ELSE s

\* ----------------------------------------------------------- configuration
OUTPUT_FOLDER == <<"output">>

ALLOWED_EXTENSIONS == { <<"p","n","g">>, <<"j","p","g">>, <<"j","p","e","g">> }

ImageSuffixes ==
  { <<".","p","n","g">>, <<".","j","p","g">>, <<".","j","p","e","g">> }

allowed_file_nodot(filename) ==
  \E e \in ALLOWED_EXTENSIONS : EndsWith(LowerStr(filename), e)

allowed_file(filename) ==
  Contains(filename, ".")
  /\ LowerStr(RSplitLast(filename, ".")) \in ALLOWED_EXTENSIONS

\* os.path.exists(p) and p.lower().endswith(('.png', '.jpg', '.jpeg'))
validate_file_noexists(files, file_path) ==
  \E suf \in ImageSuffixes : EndsWith(LowerStr(file_path), suf)

validate_file(files, file_path) ==
  (\E f \in files : f.path = file_path)
  /\ \E suf \in ImageSuffixes : EndsWith(LowerStr(file_path), suf)

\* ------------------------------------------------------------- payloads
\* "A" is a decodable image larger than max_size, "X" is not an image.
Payloads == {"A", "X"}
NoBytes == "-"

Decodable(content) == content = "A"

\* thumbnail + PNG re-encoding of a decodable payload
PngOf(content) == CASE content = "A" -> "a" [] OTHER -> content

\* sha256(...).hexdigest(), idealised as collision free
get_file_hash(content) ==
  CASE content = "A" -> <<"9f1c">>
    [] content = "a" -> <<"27d0">>
    [] content = "X" -> <<"e3b0">>
    [] OTHER -> <<"0000">>

PairKey_swapped(sc, dc) == get_file_hash(dc) \o <<":">> \o get_file_hash(sc)

\* f"{get_file_hash(source_content)}:{get_file_hash(dest_content)}"
PairKey(sc, dc) == get_file_hash(sc) \o <<":">> \o get_file_hash(dc)

\* Where compress_image can fail: creating/writing temp_in, decoding or
\* resizing, saving/reading temp_out; "none" is the successful run.
CompressFaults == {"none", "write", "decode", "save"}

\* A payload that is not an image cannot get past Image.open.
FaultsOf(content) ==
  IF Decodable(content) THEN CompressFaults ELSE {"write", "decode"}

compress_image_empty(content, fault) ==
  IF fault = "none" THEN PngOf(content) ELSE NoBytes

compress_image(content, fault) ==
  IF fault = "none" THEN PngOf(content) ELSE content

\* The NamedTemporaryFile(delete=False) files compress_image leaves on disk.
compress_files(content, fault, uuid, which) ==
  LET temp_in  == [path |-> <<"/tmp/", "tmp", uuid, which, "in", ".png">>,
                   data |-> content]
      temp_out == [path |-> <<"/tmp/", "tmp", uuid, which, "out", ".png">>,
                   data |-> IF fault = "none" THEN PngOf(content) ELSE NoBytes]
  IN CASE fault = "write"  -> {}
       [] fault = "decode" -> {temp_in}
       [] OTHER            -> {temp_in, temp_out}

\* ---------------------------------------------------------- result cache
\* TTLCache(maxsize, ttl): a sequence of entries in least-recently-used
\* order (head = next to be evicted), each with its expiry time.
Live_inclusive(e, t) == t <= e.expires

Live(e, t) == t < e.expires

CacheIndex(c, k) == IF \E i \in 1..Len(c) : c[i].key = k
                    THEN CHOOSE i \in 1..Len(c) : c[i].key = k ELSE 0

CacheContains_stale(c, k, t) ==
  \E i \in 1..Len(c) : c[i].key = k /\ t + ttl < c[i].expires

\* key in cache
CacheContains(c, k, t) ==
  \E i \in 1..Len(c) : c[i].key = k /\ Live(c[i], t)

Without(c, i) == SubSeq(c, 1, i - 1) \o SubSeq(c, i + 1, Len(c))

\* cache[key] for a live key: the value; the key becomes most recently used
CacheValue(c, k) == c[CacheIndex(c, k)].value

CacheTouch(c, k) ==
  LET i == CacheIndex(c, k) IN Without(c, i) \o <<c[i]>>

\* expire(time): drop every entry whose expiry time has been reached
RECURSIVE Expire(_, _)
Expire(c, t) ==
  IF c = <<>> THEN <<>>
  ELSE IF Live(Head(c), t) THEN <<Head(c)>> \o Expire(Tail(c), t)
       ELSE Expire(Tail(c), t)

\* cache[key] = value
CacheSetItem(c, k, v, t) ==
  LET c1 == Expire(c, t)
      i  == CacheIndex(c1, k)
      c2 == IF i = 0 /\ Len(c1) >= maxsize THEN Tail(c1) ELSE c1
      j  == CacheIndex(c2, k)
      e  == [key |-> k, value |-> v, expires |-> t + ttl]
  IN IF j # 0 THEN Without(c2, j) \o <<e>> ELSE c2 \o <<e>>

\* ------------------------------------------------------ outcome strings
InvalidInputFiles == <<"Invalid input files">>
FailedToSave == <<"Failed to save output">>
FaceSwapFailed == <<"Face swap failed">>

\* f"Error: {str(e)}"
ErrorOutcome(msg) == <<"Error", ":", " ", msg>>

NoFileSelected == <<"No file selected">>
InvalidFormat == <<"Invalid file format. Only PNG, JPG, JPEG allowed">>

\* f"/output/{os.path.basename(result)}"
ResultUrl(result) == <<"/output/">> \o Basename(result)

FinalPath_inplace(uuid) == <<"/tmp/", "gradio", "/", uuid, ".webp">>

\* f"face_swap_{uuid.uuid4().hex}.png" joined to the output directory
FinalPath(uuid) == OUTPUT_FOLDER \o <<"/", "face_swap_" , uuid, ".png">>

\* Where save_output_image can fail: os.makedirs, Image.open (the remote
\* result is not a loadable image), convert, the first save, or the
\* sharpening done by enhance_image; "none" is the run without failure.
SaveFaults == {"none", "mkdir", "load", "convert", "save", "enhance"}

\* What one remote interaction (Client(...) + client.predict) can do:
\* raise, return nothing, or return a location that may or may not exist;
\* for a location that exists, fault is what goes wrong while it is saved.
RemoteOutcomes ==
  { [kind |-> "raise", msg |-> "timeout", exists |-> FALSE, fault |-> "none"],
    [kind |-> "empty", msg |-> "",        exists |-> FALSE, fault |-> "none"],
    [kind |-> "path",  msg |-> "",        exists |-> FALSE, fault |-> "none"] }
  \cup { [kind |-> "path", msg |-> "", exists |-> TRUE, fault |-> f] :
           f \in SaveFaults }

\* What the except clause of face_swap writes to the error log
InvokerLog(o) ==
  IF o.kind = "raise" THEN <<"log: Error in face_swap">> ELSE <<>>

\* What save_output_image and enhance_image write to the error log
SaveLog(fault) ==
  CASE fault = "none"    -> <<>>
    [] fault = "enhance" -> <<"log: Error enhancing image">>
    [] OTHER             -> <<"log: Error saving output image">>

\* enhance_image: catches its own exceptions, so nothing is raised
enhance_image(fault) == [raised |-> FALSE]

save_output_image_strict(fault, uuid) ==
  IF fault = "none" THEN FinalPath(uuid) ELSE <<>>

\* save_output_image: the output path, or "" when an exception was caught
save_output_image(fault, uuid) ==
  IF fault \in {"mkdir", "load", "convert", "save"} THEN <<>>
  ELSE IF enhance_image(fault).raised THEN <<>>
  ELSE FinalPath(uuid)

face_swap_result_raising(o, uuid) ==
  IF o.kind = "raise"
  THEN [raised |-> TRUE, value |-> ErrorOutcome(o.msg)]
  ELSE [raised |-> FALSE, value |-> FaceSwapFailed]

\* The body of face_swap after client.predict came back (or raised). Every
\* exception is caught by the except clause, so nothing is raised to the
\* caller: raised is FALSE on every path.
face_swap_result(o, uuid) ==
  IF o.kind = "raise"
  THEN [raised |-> FALSE, value |-> ErrorOutcome(o.msg)]
  ELSE IF o.kind = "path" /\ o.exists
       THEN IF save_output_image(o.fault, uuid) # <<>>
            THEN [raised |-> FALSE, value |-> save_output_image(o.fault, uuid)]
            ELSE [raised |-> FALSE, value |-> FailedToSave]
       ELSE [raised |-> FALSE, value |-> FaceSwapFailed]

\* The handler's test for a failed outcome (line 164)
IsFailure_noerror(result) ==
  result = InvalidInputFiles \/ result = FailedToSave

IsFailure(result) ==
  StartsWith(result, <<"Error">>)
  \/ result = InvalidInputFiles
  \/ result = FailedToSave

\* ---------------------------------------------------------------- inputs
fn_empty == <<>>
fn_png   == <<"s", ".", "p", "n", "g">>
fn_JPG   == <<"d", ".", "J", "P", "G">>
fn_txt   == <<"i", ".", "t", "x", "t">>
fn_nodot == <<"p", "n", "g">>

\* Filenames a client may give to the source and to the dest upload.
SourceNames == {fn_empty, fn_png, fn_txt}
DestNames == {fn_empty, fn_JPG, fn_nodot}

NoName == <<"?">>
NoPath == <<>>
NoKey == <<>>
NoResult == <<>>
NoResp == [status |-> 0, body |-> <<>>]

\* ----------------------------------------------------------------- state
VARIABLES
  pc,              \* where each request slot is in swap_faces
  uuid,            \* the random hex of the request in the slot
  source_name,     \* source_image.filename
  dest_name,       \* dest_image.filename
  source_content,  \* bytes read (then normalised) from source_image
  dest_content,    \* bytes read (then normalised) from dest_image
  source_fault,    \* what goes wrong while normalising the source bytes
  dest_fault,      \* what goes wrong while normalising the dest bytes
  cache_key,       \* the PairKey computed by the request
  source_path,     \* path handed to face_swap
  dest_path,       \* path handed to face_swap
  result,          \* what face_swap returned
  resp,            \* the HTTP response of the request
  trace,           \* the steps the request has performed, in order
  cache,           \* the module-level TTLCache
  now,             \* the cache's timer
  fs,              \* files in the requests' temporary directories
  orphans,         \* number of NamedTemporaryFile files left in /tmp
  outputFiles,     \* files in the output directory
  arrived          \* number of requests accepted so far

vars == <<pc, uuid, source_name, dest_name, source_content, dest_content,
          source_fault, dest_fault, cache_key, source_path, dest_path,
          result, resp, trace,
          cache, now, fs, orphans, outputFiles, arrived>>

reqvars == <<uuid, source_name, dest_name, source_content, dest_content,
             source_fault, dest_fault, cache_key, source_path, dest_path,
             result, resp, trace>>

Init ==
  /\ pc = [r \in Reqs |-> "idle"]
  /\ uuid = [r \in Reqs |-> "0"]
  /\ source_name = [r \in Reqs |-> NoName]
  /\ dest_name = [r \in Reqs |-> NoName]
  /\ source_content = [r \in Reqs |-> NoBytes]
  /\ dest_content = [r \in Reqs |-> NoBytes]
  /\ source_fault = [r \in Reqs |-> "none"]
  /\ dest_fault = [r \in Reqs |-> "none"]
  /\ cache_key = [r \in Reqs |-> NoKey]
  /\ source_path = [r \in Reqs |-> NoPath]
  /\ dest_path = [r \in Reqs |-> NoPath]
  /\ result = [r \in Reqs |-> NoResult]
  /\ resp = [r \in Reqs |-> NoResp]
  /\ trace = [r \in Reqs |-> <<>>]
  /\ cache = <<>>
  /\ now = 0
  /\ fs = {}
  /\ orphans = 0
  /\ outputFiles = {}
  /\ arrived = 0

\* A request between two suspension points runs on the event loop thread
\* and keeps it: after the uploads are read there is no await that yields
\* (face_swap contains none, client.predict is a blocking call).
Holding(r) == pc[r] \in {"process", "invoke", "predict", "classify"}

LoopFreeFor(r) == \A r2 \in Reqs \ {r} : ~Holding(r2)

\* tempfile.TemporaryDirectory() of the request
TempDir(u) == <<"/tmp/", "dir", u, "/">>

InTempDir(f, u) == StartsWith(f.path, TempDir(u))

\* The request leaves swap_faces with the given response; its locals die.
Finish_unanswered(r, status, body, events) ==
  /\ pc' = [pc EXCEPT ![r] = "done"]
  /\ resp' = [resp EXCEPT ![r] = NoResp]
  /\ trace' = [trace EXCEPT ![r] = @ \o events]
  /\ source_name' = [source_name EXCEPT ![r] = NoName]
  /\ dest_name' = [dest_name EXCEPT ![r] = NoName]
  /\ source_content' = [source_content EXCEPT ![r] = NoBytes]
  /\ dest_content' = [dest_content EXCEPT ![r] = NoBytes]
  /\ source_fault' = [source_fault EXCEPT ![r] = "none"]
  /\ dest_fault' = [dest_fault EXCEPT ![r] = "none"]
  /\ source_path' = [source_path EXCEPT ![r] = NoPath]
  /\ dest_path' = [dest_path EXCEPT ![r] = NoPath]
  /\ result' = [result EXCEPT ![r] = NoResult]
  /\ cache_key' = [cache_key EXCEPT ![r] = NoKey]

Finish(r, status, body, events) ==
  /\ pc' = [pc EXCEPT ![r] = "done"]
  /\ resp' = [resp EXCEPT ![r] = [status |-> status, body |-> body]]
  /\ trace' = [trace EXCEPT ![r] = @ \o events]
  /\ source_name' = [source_name EXCEPT ![r] = NoName]
  /\ dest_name' = [dest_name EXCEPT ![r] = NoName]
  /\ source_content' = [source_content EXCEPT ![r] = NoBytes]
  /\ dest_content' = [dest_content EXCEPT ![r] = NoBytes]
  /\ source_fault' = [source_fault EXCEPT ![r] = "none"]
  /\ dest_fault' = [dest_fault EXCEPT ![r] = "none"]
  /\ source_path' = [source_path EXCEPT ![r] = NoPath]
  /\ dest_path' = [dest_path EXCEPT ![r] = NoPath]
  /\ result' = [result EXCEPT ![r] = NoResult]
  /\ cache_key' = [cache_key EXCEPT ![r] = NoKey]

\* A client posts to /swap with two uploads.
Arrive(r) ==
  /\ pc[r] \in {"idle", "done"}
  /\ LoopFreeFor(r)
  /\ arrived < MaxRequests
  /\ \E sf \in SourceNames, df \in DestNames :
       /\ source_name' = [source_name EXCEPT ![r] = sf]
       /\ dest_name' = [dest_name EXCEPT ![r] = df]
  /\ arrived' = arrived + 1
  /\ uuid' = [uuid EXCEPT ![r] = ToString(arrived + 1)]
  /\ pc' = [pc EXCEPT ![r] = "check"]
  /\ resp' = [resp EXCEPT ![r] = NoResp]
  /\ trace' = [trace EXCEPT ![r] = <<>>]
  /\ UNCHANGED <<cache_key, source_content, dest_content, source_fault,
                 dest_fault, source_path, dest_path, result, cache, now, fs, orphans, outputFiles>>

\* swap_faces, lines 129-136: the two upload checks.
CheckFilenames(r) ==
  /\ pc[r] = "check"
  /\ LoopFreeFor(r)
  /\ IF source_name[r] = <<>> \/ dest_name[r] = <<>>
     THEN Finish(r, 400, NoFileSelected, <<"filename_check">>)
     ELSE IF ~(allowed_file(source_name[r]) /\ allowed_file(dest_name[r]))
     THEN Finish(r, 400, InvalidFormat,
                 <<"filename_check", "extension_check">>)
     ELSE /\ pc' = [pc EXCEPT ![r] = "read"]
          /\ trace' = [trace EXCEPT ![r] =
                         @ \o <<"filename_check", "extension_check">>]
          /\ UNCHANGED <<source_name, dest_name, source_content, dest_content,
                         source_fault, dest_fault, cache_key, source_path,
                         dest_path, result, resp>>
  /\ UNCHANGED <<uuid, cache, now, fs, orphans, outputFiles,
                 arrived>>

\* swap_faces, lines 138-140: both payloads are read into memory. What will
\* go wrong in compress_image for these bytes is fixed here as well.
ReadUploads(r) ==
  /\ pc[r] = "read"
  /\ LoopFreeFor(r)
  /\ \E sc \in Payloads, dc \in Payloads :
       /\ source_content' = [source_content EXCEPT ![r] = sc]
       /\ dest_content' = [dest_content EXCEPT ![r] = dc]
       /\ \E sfault \in FaultsOf(sc), dfault \in FaultsOf(dc) :
            /\ source_fault' = [source_fault EXCEPT ![r] = sfault]
            /\ dest_fault' = [dest_fault EXCEPT ![r] = dfault]
  /\ pc' = [pc EXCEPT ![r] = "process"]
  /\ trace' = [trace EXCEPT ![r] = @ \o <<"read">>]
  /\ UNCHANGED <<uuid, source_name, dest_name, cache_key, source_path,
                 dest_path, result, resp, cache, now, fs, orphans,
                 outputFiles, arrived>>

\* swap_faces, lines 141-161: normalise, fingerprint, look the pair up;
\* on a hit answer from the cache, on a miss write the two temp files.
Process(r) ==
  /\ pc[r] = "process"
  /\ LoopFreeFor(r)
  /\ LET sfault == source_fault[r]
         dfault == dest_fault[r]
     IN
       LET sc == compress_image(source_content[r], sfault)
           dc == compress_image(dest_content[r], dfault)
           left == compress_files(source_content[r], sfault, uuid[r], "s")
                     \cup compress_files(dest_content[r], dfault, uuid[r], "d")
           key == PairKey(sc, dc)
           sp == TempDir(uuid[r]) \o <<"source_", uuid[r], ".">>
                   \o RSplitLast(source_name[r], ".")
           dp == TempDir(uuid[r]) \o <<"dest_", uuid[r], ".">>
                   \o RSplitLast(dest_name[r], ".")
       IN /\ orphans' = Min(orphans + Cardinality(left), MaxOrphans)
          /\ IF CacheContains(cache, key, now)
             THEN /\ Finish(r, 200, ResultUrl(CacheValue(cache, key)),
                            <<"normalize", "key", "lookup", "respond">>)
                  /\ cache' = CacheTouch(cache, key)
                  /\ UNCHANGED fs
             ELSE /\ pc' = [pc EXCEPT ![r] = "invoke"]
                  /\ source_content' = [source_content EXCEPT ![r] = sc]
                  /\ dest_content' = [dest_content EXCEPT ![r] = dc]
                  /\ source_path' = [source_path EXCEPT ![r] = sp]
                  /\ dest_path' = [dest_path EXCEPT ![r] = dp]
                  /\ fs' = fs \cup {[path |-> sp, data |-> sc],
                                    [path |-> dp, data |-> dc]}
                  /\ trace' = [trace EXCEPT ![r] =
                       @ \o <<"normalize", "key", "lookup", "tmp_write">>]
                  /\ cache_key' = [cache_key EXCEPT ![r] = key]
                  /\ source_fault' = [source_fault EXCEPT ![r] = "none"]
                  /\ dest_fault' = [dest_fault EXCEPT ![r] = "none"]
                  /\ UNCHANGED <<source_name, dest_name, result, resp,
                                 cache>>
  /\ UNCHANGED <<uuid, now, outputFiles, arrived>>

\* face_swap, lines 91-106: validation, then the remote call is sent.
FaceSwapBegin(r) ==
  /\ pc[r] = "invoke"
  /\ LoopFreeFor(r)
  /\ IF ~(validate_file(fs, source_path[r]) /\ validate_file(fs, dest_path[r]))
     THEN /\ result' = [result EXCEPT ![r] = InvalidInputFiles]
          /\ pc' = [pc EXCEPT ![r] = "classify"]
          /\ trace' = [trace EXCEPT ![r] = @ \o <<"validate">>]
     ELSE /\ pc' = [pc EXCEPT ![r] = "predict"]
          /\ trace' = [trace EXCEPT ![r] = @ \o <<"validate", "remote">>]
          /\ UNCHANGED result
  /\ UNCHANGED <<uuid, source_name, dest_name, source_content, dest_content,
                 source_fault, dest_fault, cache_key, source_path, dest_path,
                 resp, cache, now, fs, orphans, outputFiles, arrived>>

\* Number of remote calls the request has made
Attempts(r) == Cardinality({i \in 1..Len(trace[r]) : trace[r][i] = "remote"})

\* face_swap, lines 100-120, under @retry(tries=3, delay=2, backoff=2): the
\* remote call comes back, the result is finalised, and the retry wrapper
\* calls face_swap again only if the call raised to it.
PredictReturn(r) ==
  /\ pc[r] = "predict"
  /\ \E o \in RemoteOutcomes :
     LET out == face_swap_result(o, uuid[r])
         saved == o.kind = "path" /\ o.exists
                  /\ save_output_image(o.fault, uuid[r]) # <<>>
     IN
          /\ outputFiles' =
               IF saved
               THEN outputFiles \cup {save_output_image(o.fault, uuid[r])}
               ELSE outputFiles
          /\ trace' = [trace EXCEPT ![r] =
               IF o.kind = "path" /\ o.exists
               THEN @ \o <<"finalize">> \o SaveLog(o.fault)
               ELSE @ \o InvokerLog(o)]
          /\ IF out.raised /\ Attempts(r) < Tries
             THEN /\ pc' = [pc EXCEPT ![r] = "invoke"]
                  /\ UNCHANGED result
             ELSE /\ pc' = [pc EXCEPT ![r] = "classify"]
                  /\ result' = [result EXCEPT ![r] = out.value]
  /\ UNCHANGED <<uuid, source_name, dest_name, source_content, dest_content,
                 source_fault, dest_fault, cache_key, source_path, dest_path,
                 resp, cache, now, fs, orphans, arrived>>

\* swap_faces, lines 163-170: the outcome becomes a 500, or is stored in
\* the cache and answered with 200; the temporary directory is removed.
Classify(r) ==
  /\ pc[r] = "classify"
  /\ LoopFreeFor(r)
  /\ IF IsFailure(result[r])
     THEN /\ Finish(r, 500, result[r], <<"respond">>)
          /\ UNCHANGED cache
     ELSE /\ Finish(r, 200, ResultUrl(result[r]), <<"store", "respond">>)
          /\ cache' = CacheSetItem(cache, cache_key[r], result[r], now)
  /\ fs' = {f \in fs : ~InTempDir(f, uuid[r])}
  /\ UNCHANGED <<uuid, now, orphans, outputFiles, arrived>>

\* Time passes on the cache's timer.
Tick ==
  /\ now + TickStep <= MaxTime
  /\ now' = now + TickStep
  /\ UNCHANGED <<pc, reqvars, cache, fs, orphans, outputFiles, arrived>>

Next ==
  \/ \E r \in Reqs : Arrive(r)
  \/ \E r \in Reqs : CheckFilenames(r)
  \/ \E r \in Reqs : ReadUploads(r)
  \/ \E r \in Reqs : Process(r)
  \/ \E r \in Reqs : FaceSwapBegin(r)
  \/ \E r \in Reqs : PredictReturn(r)
  \/ \E r \in Reqs : Classify(r)
  \/ Tick

Spec == Init /\ [][Next]_vars

\* ------------------------------------------- face_swap called on its own
\* face_swap applied to arbitrary paths: some exist, some do not, some
\* carry an image extension and some do not.
InvokerPaths ==
  { <<"in", "/", "a", ".", "p", "n", "g">>,
    <<"in", "/", "b", ".", "J", "P", "E", "G">>,
    <<"in", "/", "c", ".", "t", "x", "t">>,
    <<"in", "/", "p", "n", "g">> }

InitInvoker ==
  \E r0 \in Reqs, sp \in InvokerPaths, dp \in InvokerPaths,
     present \in SUBSET InvokerPaths :
    /\ pc = [r \in Reqs |-> IF r = r0 THEN "invoke" ELSE "idle"]
    /\ uuid = [r \in Reqs |-> IF r = r0 THEN "1" ELSE "0"]
    /\ source_name = [r \in Reqs |-> NoName]
    /\ dest_name = [r \in Reqs |-> NoName]
    /\ source_content = [r \in Reqs |-> NoBytes]
    /\ dest_content = [r \in Reqs |-> NoBytes]
    /\ source_fault = [r \in Reqs |-> "none"]
    /\ dest_fault = [r \in Reqs |-> "none"]
    /\ cache_key = [r \in Reqs |-> NoKey]
    /\ source_path = [r \in Reqs |-> IF r = r0 THEN sp ELSE NoPath]
    /\ dest_path = [r \in Reqs |-> IF r = r0 THEN dp ELSE NoPath]
    /\ result = [r \in Reqs |-> NoResult]
    /\ resp = [r \in Reqs |-> NoResp]
    /\ trace = [r \in Reqs |-> <<>>]
    /\ cache = <<>>
    /\ now = 0
    /\ fs = {[path |-> q, data |-> "A"] : q \in present}
    /\ orphans = 0
    /\ outputFiles = {}
    /\ arrived = 1

NextInvoker ==
  \/ \E r \in Reqs : FaceSwapBegin(r)
  \/ \E r \in Reqs : PredictReturn(r)

SpecInvoker == InitInvoker /\ [][NextInvoker]_vars

\* ------------------------------------------- the result cache on its own
\* The two cache operations of swap_faces applied to arbitrary keys and
\* values at arbitrary times.
CacheKeys == {PairKey(sc, dc) : sc \in {"a", "X"}, dc \in {"a", "X"}}
CacheVals == {FinalPath("1"), FinalPath("2")}

\* cache[cache_key] = result (line 168)
CachePut(k, v) ==
  /\ cache' = CacheSetItem(cache, k, v, now)
  /\ UNCHANGED <<pc, reqvars, now, fs, orphans, outputFiles, arrived>>

\* if cache_key in cache: result_url = cache[cache_key] (lines 146-147)
CacheGet(k) ==
  /\ cache' = IF CacheContains(cache, k, now) THEN CacheTouch(cache, k)
              ELSE cache
  /\ UNCHANGED <<pc, reqvars, now, fs, orphans, outputFiles, arrived>>

NextCache ==
  \/ \E k \in CacheKeys, v \in CacheVals : CachePut(k, v)
  \/ \E k \in CacheKeys : CacheGet(k)
  \/ Tick

SpecCache == Init /\ [][NextCache]_vars

\* ------------------------------------------------- requests run to the end
\* One /swap request per connection: a request arrives on a connection that
\* has not carried one yet.
Connect(r) == pc[r] = "idle" /\ Arrive(r)

\* The steps of request r that the event loop runs once r is in flight
RequestStep(r) ==
  \/ CheckFilenames(r)
  \/ ReadUploads(r)
  \/ Process(r)
  \/ FaceSwapBegin(r)
  \/ PredictReturn(r)
  \/ Classify(r)

NextLive ==
  \/ \E r \in Reqs : Connect(r)
  \/ \E r \in Reqs : CheckFilenames(r)
  \/ \E r \in Reqs : ReadUploads(r)
  \/ \E r \in Reqs : Process(r)
  \/ \E r \in Reqs : FaceSwapBegin(r)
  \/ \E r \in Reqs : PredictReturn(r)
  \/ \E r \in Reqs : Classify(r)
  \/ Tick

\* The event loop runs every ready coroutine in turn, and every remote call
\* returns or raises: a step of a request that stays possible is taken.
SpecLive ==
  Init /\ [][NextLive]_vars /\ \A r \in Reqs : WF_vars(RequestStep(r))

\* =============================================================== claims
Has(tr, ev) == \E i \in 1..Len(tr) : tr[i] = ev

\* Request r takes a step of swap_faces / face_swap
Stepped(r) == pc'[r] # pc[r]

\* The bytes compress_image is specified to hand back
NormalizedOrOriginal(content, fault) ==
  IF fault # "none" THEN content
  ELSE IF content = "A" THEN "a" ELSE content

\* The PairKey of the request that is about to be looked up
LookupKey(r) ==
  get_file_hash(NormalizedOrOriginal(source_content[r], source_fault[r]))
    \o <<":">>
    \o get_file_hash(NormalizedOrOriginal(dest_content[r], dest_fault[r]))

LiveEntries(c, k, t) ==
  {c[i] : i \in {j \in 1..Len(c) : c[j].key = k /\ t < c[j].expires}}

\* C1: a request whose PairKey has a live entry in the cache when it is
\* looked up is answered 200 with the cached artifact reference, performs no
\* remote invocation and no finalization; the request that stored the entry
\* answered with the very reference it stored, so a later hit returns the
\* same reference as the first request.
C1_CacheHitSkipsRemote ==
  [][\A r \in Reqs :
       /\ (pc[r] = "process" /\ Stepped(r)
           /\ LiveEntries(cache, LookupKey(r), now) # {})
          => /\ pc'[r] = "done"
             /\ \E e \in LiveEntries(cache, LookupKey(r), now) :
                  resp'[r] = [status |-> 200,
                              body |-> <<"/output/">> \o Basename(e.value)]
             /\ ~Has(trace'[r], "remote")
             /\ ~Has(trace'[r], "finalize")
             /\ ~Has(trace'[r], "store")
             /\ outputFiles' = outputFiles
       /\ (pc[r] = "classify" /\ Stepped(r) /\ resp'[r].status = 200)
          => \E e \in LiveEntries(cache', cache_key[r], now') :
               resp'[r].body = <<"/output/">> \o Basename(e.value)
    ]_vars

C1_Witness ==
  \E r \in Reqs, r2 \in Reqs :
    /\ r # r2
    /\ pc[r] = "done" /\ resp[r].status = 200
    /\ Has(trace[r], "lookup") /\ ~Has(trace[r], "remote")
    /\ pc[r2] = "done" /\ Has(trace[r2], "store")
    /\ resp[r2] = resp[r]

\* C2: an invocation whose remote call raises on every attempt makes
\* exactly 3 remote attempts before "Error: <message>" is its outcome.
C2_ThreeAttemptsBeforeError ==
  \A r \in Reqs :
    (pc[r] = "classify" /\ StartsWith(result[r], <<"Error">>))
      => Attempts(r) = 3

\* C3: a request that missed the cache and whose remote call raised is
\* answered 500 with the error message; none of its steps after the miss
\* changes the cache, and the cache holds no entry for its PairKey when it
\* is answered.
C3_RemoteFailureLeavesCacheAlone ==
  [][\A r \in Reqs :
       /\ (pc[r] \in {"invoke", "predict"} /\ Stepped(r)) => cache' = cache
       /\ (pc[r] = "classify" /\ Stepped(r)
           /\ StartsWith(result[r], <<"Error">>))
          => /\ pc'[r] = "done"
             /\ resp'[r] = [status |-> 500, body |-> result[r]]
             /\ cache' = cache
             /\ LiveEntries(cache', cache_key[r], now') = {}
    ]_vars

C3_Witness ==
  \E r \in Reqs :
    /\ pc[r] = "done"
    /\ resp[r].status = 500
    /\ StartsWith(resp[r].body, <<"Error">>)
    /\ Has(trace[r], "remote")

\* C4: every request whose remote/processing step fails (invalid input
\* files, "Face swap failed", a save failure, an "Error: ..." outcome) is
\* answered 500, and a 200 response names an artifact file that was written
\* into the output directory.
C4_FailuresAre500 ==
  [][\A r \in Reqs :
       /\ (pc[r] = "classify" /\ Stepped(r)
           /\ (\/ result[r] = <<"Invalid input files">>
               \/ result[r] = <<"Face swap failed">>
               \/ result[r] = <<"Failed to save output">>
               \/ StartsWith(result[r], <<"Error">>)))
          => resp'[r].status = 500
       /\ (Stepped(r) /\ pc'[r] = "done" /\ resp'[r].status = 200)
          => \E f \in outputFiles' :
               resp'[r].body = <<"/output/">> \o Basename(f)
    ]_vars

\* C5: once no request is being processed, no temporary file created on
\* behalf of a request is left: neither a file of compress_image nor a file
\* of a request's temporary directory.
C5_NoTempFileLeftBehind ==
  (\A r \in Reqs : pc[r] \in {"idle", "done"}) => (orphans = 0 /\ fs = {})

\* C6: a request with an empty filename, or with a filename whose extension
\* is not png/jpg/jpeg, is answered 400 by the upload checks: nothing is
\* read, normalised, looked up, written or invoked, the cache is unchanged,
\* and a missing filename is reported in preference to a bad extension.
BadExtension(name) == name \in {fn_txt, fn_nodot}

C6_BadUploadIs400 ==
  [][\A r \in Reqs :
       (pc[r] = "check" /\ Stepped(r)
        /\ (\/ source_name[r] = <<>> \/ dest_name[r] = <<>>
            \/ BadExtension(source_name[r]) \/ BadExtension(dest_name[r])))
       => /\ pc'[r] = "done"
          /\ resp'[r].status = 400
          /\ resp'[r].body =
               IF source_name[r] = <<>> \/ dest_name[r] = <<>>
               THEN <<"No file selected">>
               ELSE <<"Invalid file format. Only PNG, JPG, JPEG allowed">>
          /\ \A ev \in {"read", "normalize", "key", "lookup", "tmp_write",
                        "remote", "finalize", "store"} : ~Has(trace'[r], ev)
          /\ source_content'[r] = NoBytes /\ dest_content'[r] = NoBytes
          /\ cache' = cache /\ fs' = fs /\ orphans' = orphans
          /\ outputFiles' = outputFiles
    ]_vars

C6_Witness ==
  \E r \in Reqs, r2 \in Reqs :
    /\ pc[r] = "done" /\ resp[r].status = 400
    /\ resp[r].body = <<"Invalid file format. Only PNG, JPG, JPEG allowed">>
    /\ pc[r2] = "done" /\ resp[r2].status = 400
    /\ resp[r2].body = <<"No file selected">>

\* C7: while one request is inside its remote invocation, every other
\* in-flight request that is waiting to run its upload checks or to read
\* its uploads can take that step.
C7_RemoteCallYields ==
  \A r \in Reqs, r2 \in Reqs :
    (r # r2 /\ pc[r] = "predict" /\ pc[r2] \in {"check", "read"})
      => ENABLED (CheckFilenames(r2) \/ ReadUploads(r2))

\* C8 as claimed: after put(k, v) a get(k) returns v; an entry that is
\* live stays readable with its value for as long as its TTL has not
\* elapsed, unless k itself is put again; once the TTL has elapsed get(k)
\* returns absent.
PutReturnsValue ==
  \A k \in CacheKeys, v \in CacheVals :
    CachePut(k, v)
      => (CacheContains(cache', k, now') /\ CacheValue(cache', k) = v)

ExpiredIsAbsent ==
  \A i \in 1..Len(cache') :
    now' >= cache'[i].expires => ~CacheContains(cache', cache'[i].key, now')

StaysReadable(k) ==
  \E e \in LiveEntries(cache, k, now) :
    \E e2 \in LiveEntries(cache', k, now') : e2.value = e.value

WithinTtl(k) ==
  \E e \in LiveEntries(cache, k, now) : now' < e.expires

C8_RoundTripUntilTtl ==
  [][/\ PutReturnsValue
     /\ ExpiredIsAbsent
     /\ \A k \in CacheKeys :
          (WithinTtl(k) /\ ~(\E v \in CacheVals : CachePut(k, v)))
            => StaysReadable(k)
    ]_vars

\* C8 amended: the same, except that a live entry may also be lost when a
\* put of another key that is not in the cache finds the cache holding
\* maxsize live entries (the least recently used entry is evicted).
EvictingPut(k) ==
  \E k2 \in CacheKeys \ {k}, v \in CacheVals :
    /\ CachePut(k2, v)
    /\ LiveEntries(cache, k2, now) = {}
    /\ Cardinality({i \in 1..Len(cache) : now < cache[i].expires}) >= maxsize

C8_RoundTripUnlessEvicted ==
  [][/\ PutReturnsValue
     /\ ExpiredIsAbsent
     /\ \A k \in CacheKeys :
          (WithinTtl(k) /\ ~(\E v \in CacheVals : CachePut(k, v))
           /\ ~EvictingPut(k))
            => StaysReadable(k)
    ]_vars

C8_Witness ==
  /\ Len(cache) = maxsize
  /\ \E i \in 1..Len(cache) : now >= cache[i].expires
  /\ \E i \in 1..Len(cache) : now < cache[i].expires

\* C9: when the source path or the dest path is not an existing file with
\* a .png/.jpg/.jpeg extension, face_swap returns "Invalid input files", the
\* remote service is not contacted and the invocation is not run again.
GoodImagePath(p) ==
  /\ p \in { <<"in", "/", "a", ".", "p", "n", "g">>,
             <<"in", "/", "b", ".", "J", "P", "E", "G">> }
  /\ \E f \in fs : f.path = p

C9_InvalidInputNotSent ==
  [][\A r \in Reqs :
       (pc[r] = "invoke" /\ Stepped(r)
        /\ ~(GoodImagePath(source_path[r]) /\ GoodImagePath(dest_path[r])))
       => /\ pc'[r] = "classify"
          /\ result'[r] = <<"Invalid input files">>
          /\ ~Has(trace'[r], "remote")
          /\ Cardinality({i \in 1..Len(trace'[r]) :
                            trace'[r][i] = "validate"}) = 1
    ]_vars

C9_Witness ==
  \E r \in Reqs :
    /\ pc[r] = "classify"
    /\ result[r] = <<"Invalid input files">>
    /\ \E f \in fs : f.path = source_path[r]
    /\ ~Has(trace[r], "remote")

\* C10: compress_image never raises: the request always goes on from
\* normalisation to the lookup, and when a step of compress_image failed
\* for an upload the bytes that are fingerprinted and written for it are
\* exactly the bytes that were read.
C10_NormalizerFailsOpen ==
  [][\A r \in Reqs :
       (pc[r] = "process" /\ Stepped(r))
       => /\ Has(trace'[r], "lookup")
          /\ \/ pc'[r] = "done" /\ resp'[r].status = 200
             \/ /\ pc'[r] = "invoke"
                /\ source_fault[r] # "none"
                     => source_content'[r] = source_content[r]
                /\ dest_fault[r] # "none"
                     => dest_content'[r] = dest_content[r]
                /\ cache_key'[r] = LookupKey(r)
                /\ \E f \in fs' : f.path = source_path'[r]
                                  /\ f.data = source_content'[r]
    ]_vars

C10_Witness ==
  \E r \in Reqs :
    /\ pc[r] = "invoke"
    /\ source_content[r] = "A" /\ dest_content[r] = "X"
    /\ cache_key[r] = PairKey("A", "X")
    /\ \E f \in fs : f.path = source_path[r] /\ f.data = "A"

\* The bytes a request can be fingerprinting: uploads and normalised uploads
KeyedBytes == Payloads \cup {PngOf(c) : c \in {p \in Payloads : Decodable(p)}}

\* <source fingerprint, ":", destination fingerprint>, written out
OrderedKey(sc, dc) == <<get_file_hash(sc)[1], ":", get_file_hash(dc)[1]>>

\* C11: the PairKey of a request is fingerprint(source), ":",
\* fingerprint(dest) in that order; when the two fingerprints differ the key
\* of the swapped roles is a different key; and an entry is hit or stored by
\* a request only under the key made of that request's own source and
\* destination fingerprints, so two requests that share an entry have equal
\* source fingerprints and equal destination fingerprints.
C11_PairKeyOrdered ==
  [][\A r \in Reqs :
          /\ (pc[r] = "process" /\ pc'[r] = "invoke")
               => /\ cache_key'[r] =
                       OrderedKey(source_content'[r], dest_content'[r])
                  /\ \A a \in KeyedBytes, b \in KeyedBytes :
                       /\ get_file_hash(a) # get_file_hash(b)
                            => PairKey(a, b) # PairKey(b, a)
                       /\ PairKey(a, b) = cache_key'[r]
                            => /\ get_file_hash(a) =
                                    get_file_hash(source_content'[r])
                               /\ get_file_hash(b) =
                                    get_file_hash(dest_content'[r])
                  /\ get_file_hash(source_content'[r])
                        # get_file_hash(dest_content'[r])
                       => cache_key'[r] #
                            OrderedKey(dest_content'[r], source_content'[r])
          /\ (pc[r] = "process" /\ pc'[r] = "done")
               => \E i \in 1..Len(cache) :
                    /\ cache[i].key =
                         OrderedKey(
                           NormalizedOrOriginal(source_content[r],
                                                source_fault[r]),
                           NormalizedOrOriginal(dest_content[r],
                                                dest_fault[r]))
                    /\ resp'[r].body = ResultUrl(cache[i].value)
          /\ (pc[r] = "classify" /\ pc'[r] = "done"
                /\ resp'[r].status = 200)
               => \E i \in 1..Len(cache') :
                    cache'[i].key =
                      OrderedKey(source_content[r], dest_content[r])
    ]_vars

\* A request with source "a" and destination "X" has missed the cache
\* although the entry of the swapped pair is stored and live.
C11_Witness ==
  \E r \in Reqs :
    /\ pc[r] = "invoke"
    /\ source_content[r] = "a" /\ dest_content[r] = "X"
    /\ cache_key[r] = <<"27d0", ":", "e3b0">>
    /\ \E i \in 1..Len(cache) :
         cache[i].key = <<"e3b0", ":", "27d0">> /\ Live(cache[i], now)

\* Request r has looked its PairKey up, missed, and has not yet stored
BetweenLookupAndStore(r) == pc[r] \in {"invoke", "predict", "classify"}

FailureOutcome(v) ==
  \/ v = InvalidInputFiles
  \/ v = FailedToSave
  \/ v = FaceSwapFailed
  \/ StartsWith(v, <<"Error">>)

\* C13: every value stored in the result cache is the location of an
\* artifact written under the output directory, and none is a failure
\* outcome string of the invoker.
C13_CacheHoldsArtifactsOnly ==
  \A i \in 1..Len(cache) :
    /\ cache[i].value \in outputFiles
    /\ StartsWith(cache[i].value, OUTPUT_FOLDER)
    /\ ~FailureOutcome(cache[i].value)

\* What face_swap hands back to the handler is one of its outcome strings
StringOutcome(r, v) == FailureOutcome(v) \/ v = FinalPath(uuid[r])

\* Nothing escapes face_swap: each of its steps leaves the response alone,
\* its last step hands a string outcome to the handler after one remote
\* call, and a response is produced by steps of the handler only.
NothingEscapes(r) ==
  /\ (pc[r] = "invoke" /\ Stepped(r))
       => /\ pc'[r] \in {"predict", "classify"}
          /\ resp'[r] = resp[r]
          /\ pc'[r] = "classify" => result'[r] = InvalidInputFiles
  /\ (pc[r] = "predict" /\ Stepped(r))
       => /\ pc'[r] = "classify"
          /\ resp'[r] = resp[r]
          /\ StringOutcome(r, result'[r])
          /\ Cardinality({i \in 1..Len(trace'[r]) :
                            trace'[r][i] = "remote"}) = 1
          /\ Has(trace'[r], "log: Error in face_swap")
               => /\ StartsWith(result'[r], <<"Error", ":", " ">>)
                  /\ Len(result'[r]) = 4
  /\ resp'[r] # resp[r]
       => (pc[r] \in {"check", "process", "classify"} \/ pc'[r] = "check")

\* C14 as claimed: face_swap never lets an exception escape, and an exception
\* raised during validation, connection, the remote call or saving comes
\* back to the handler as the outcome "Error: <message>".
C14_EveryExceptionIsErrorOutcome ==
  [][\A r \in Reqs :
       /\ NothingEscapes(r)
       /\ (pc[r] = "predict" /\ Stepped(r)
            /\ Has(trace'[r], "log: Error saving output image"))
           => StartsWith(result'[r], <<"Error">>)
    ]_vars

\* C14: face_swap never lets an exception escape: an exception of the
\* connection or of the remote call comes back as "Error: <message>", an
\* exception raised while saving is caught in save_output_image and comes
\* back as "Failed to save output"; the handler receives a string outcome
\* only and is the only place where a response status is produced.
C14_ExceptionsBecomeOutcomes ==
  [][\A r \in Reqs :
       /\ NothingEscapes(r)
       /\ (pc[r] = "predict" /\ Stepped(r)
            /\ Has(trace'[r], "log: Error saving output image"))
           => result'[r] = FailedToSave
    ]_vars

\* One request got "Error: timeout" back after a single remote call, another
\* was answered 500 after an exception while saving.
C14_Witness ==
  \E r \in Reqs, r2 \in Reqs :
    /\ pc[r] = "classify"
    /\ result[r] = <<"Error", ":", " ", "timeout">>
    /\ Attempts(r) = 1
    /\ Has(trace[r], "log: Error in face_swap")
    /\ pc[r2] = "done" /\ resp[r2].status = 500
    /\ resp[r2].body = FailedToSave
    /\ Has(trace[r2], "log: Error saving output image")

\* The steps of one request in the order of section 4.6; 0 for a log line
StepRank(ev) ==
  CASE ev = "filename_check"  -> 1
    [] ev = "extension_check" -> 2
    [] ev = "read"            -> 3
    [] ev = "normalize"       -> 4
    [] ev = "key"             -> 5
    [] ev = "lookup"          -> 6
    [] ev = "tmp_write"       -> 7
    [] ev = "validate"        -> 8
    [] ev = "remote"          -> 9
    [] ev = "finalize"        -> 10
    [] ev = "store"           -> 11
    [] ev = "respond"         -> 12
    [] OTHER                  -> 0

\* C15: the steps of every request occur strictly in the order filename
\* check, extension check, read, normalize, PairKey, cache lookup, temp
\* files, remote invocation, finalization, cache store, response; the cache
\* is stored only after a finalization that succeeded, and a remote
\* invocation only after the lookup.
C15_StepsInOrder ==
  \A r \in Reqs :
    /\ \A i \in 1..Len(trace[r]), j \in 1..Len(trace[r]) :
         (i < j /\ StepRank(trace[r][i]) > 0 /\ StepRank(trace[r][j]) > 0)
           => StepRank(trace[r][i]) < StepRank(trace[r][j])
    /\ Has(trace[r], "remote") => Has(trace[r], "lookup")
    /\ Has(trace[r], "store")
         => /\ Has(trace[r], "finalize")
            /\ ~Has(trace[r], "log: Error saving output image")

\* C16: when save_output_image is called, it returns the output path
\* whenever directory creation, load, conversion and the first save succeed,
\* whether or not the sharpening of enhance_image fails, and the artifact is
\* then in the output directory; it returns "" exactly when one of those
\* four fails, which face_swap reports as "Failed to save output".
C16_SharpeningIsBestEffort ==
  [][\A r \in Reqs :
       (pc[r] = "predict" /\ Stepped(r) /\ Has(trace'[r], "finalize"))
       => IF Has(trace'[r], "log: Error saving output image")
          THEN /\ result'[r] = FailedToSave
               /\ outputFiles' = outputFiles
          ELSE /\ result'[r] = FinalPath(uuid[r])
               /\ result'[r] \in outputFiles'
               /\ result'[r] # FailedToSave
    ]_vars

\* An artifact was returned and written although its sharpening failed.
C16_Witness ==
  \E r \in Reqs :
    /\ pc[r] = "classify"
    /\ Has(trace[r], "log: Error enhancing image")
    /\ result[r] = FinalPath(uuid[r])
    /\ result[r] \in outputFiles

\* Request r takes a step inside face_swap
InvokerStep(r) == pc[r] \in {"invoke", "predict"} /\ Stepped(r)

\* The key/value pairs the cache holds
CacheContents(c) ==
  {[key |-> c[i].key, value |-> c[i].value] : i \in 1..Len(c)}

\* C17 as claimed: a step of face_swap leaves the result cache unchanged and
\* leaves the set of files in the output directory unchanged.
C17_InvokerHasNoSideEffect ==
  [][\A r \in Reqs :
       InvokerStep(r) => (cache' = cache /\ outputFiles' = outputFiles)
    ]_vars

\* C17: a step of face_swap leaves the result cache and the request's
\* temporary files unchanged; the only file it may add is the finalized
\* artifact output/face_swap_<uuid>.png, which it then returns; and a pair is
\* added to the cache only by the handler's store on its 200 path.
C17_InvokerWritesOnlyArtifact ==
  [][/\ \A r \in Reqs :
          InvokerStep(r)
          => /\ cache' = cache
             /\ fs' = fs
             /\ outputFiles \subseteq outputFiles'
             /\ outputFiles' \subseteq
                  outputFiles
                    \cup {<<"output", "/", "face_swap_", uuid[r], ".png">>}
             /\ outputFiles' # outputFiles
                  => (pc'[r] = "classify" /\ result'[r] \in outputFiles')
     /\ ~(CacheContents(cache') \subseteq CacheContents(cache))
          => \E r \in Reqs :
               /\ pc[r] = "classify" /\ pc'[r] = "done"
               /\ resp'[r].status = 200
               /\ [key |-> cache_key[r], value |-> result[r]]
                    \in CacheContents(cache')
    ]_vars

\* face_swap has come back with an artifact it wrote into the output
\* directory, and the cache does not hold it.
C17_Witness ==
  \E r \in Reqs :
    /\ pc[r] = "classify"
    /\ result[r] = <<"output", "/", "face_swap_", uuid[r], ".png">>
    /\ result[r] \in outputFiles
    /\ \A i \in 1..Len(cache) : cache[i].value # result[r]

\* C18: every request that has arrived is eventually answered with 200, 400
\* or 500; it has no response before that and its response never changes
\* afterwards; and no request makes more than 3 remote calls.
C18_EveryRequestCompletes ==
  /\ \A r \in Reqs :
       (pc[r] = "check")
         ~> (pc[r] = "done" /\ resp[r].status \in {200, 400, 500})
  /\ [](\A r \in Reqs :
          /\ Attempts(r) <= 3
          /\ pc[r] # "done" => resp[r] = NoResp)
  /\ [][\A r \in Reqs :
          pc[r] = "done" => (pc'[r] = "done" /\ resp'[r] = resp[r])]_vars

\* Both requests are answered, one of them after its remote call.
C18_Witness ==
  \E r \in Reqs, r2 \in Reqs :
    /\ r # r2
    /\ pc[r] = "done" /\ Has(trace[r], "remote")
    /\ Attempts(r) = 1 /\ resp[r].status \in {200, 500}
    /\ pc[r2] = "done" /\ resp[r2].status = 400

====
